---- MODULE Spec2Model ----
(***************************************************************************)
(* Agent Arena: the submission scheduler (arena/api/submissions.py), the   *)
(* challenge evaluator (arena/challenges/compression.py) and the rows of   *)
(* the relational store (arena/db/models.py) they work on.                 *)
(*                                                                         *)
(* submit_solution is an HTTP handler; process_submission is the           *)
(* background task it queues, run by a pool thread with a database session *)
(* of its own.  Every db.commit() is one step of the model: what a session *)
(* has read or changed but not committed is local to its handler or        *)
(* worker, what it has committed is in the shared variables.               *)
(***************************************************************************)
EXTENDS Integers, Sequences, FiniteSets, TLC

\* ---------------------------------------------------------------- bounds
MaxSubs == 2        \* submission rows under Spec
MaxRateSubs == 3    \* submission rows under SpecRate
MaxEvalSubs == 1    \* submission rows under SpecEval
MaxRankSubs == 3    \* submission rows under SpecRank

SUBMISSIONS_PER_HOUR == 2      \* the setting SUBMISSIONS_PER_HOUR of the deployment
REFERENCE_SIZE == 8            \* len(original_data) of the deployment's input.bin
ChannelCapacity == 16          \* bytes the pipe under ctx.Queue() holds unread

\* ------------------------------------------------------ program constants
WINDOW_MINUTES == 60           \* timedelta(hours=1)
RETRY_AFTER_SECONDS == 3600
SANDBOX_TIMEOUT_SECONDS == 60
CODE_SIZE_LIMIT == 100000
MAX_CODE_LENGTH == 100000      \* CodeValidator.max_code_length
JOIN_GRACE_SECONDS == 5        \* process.join(timeout=self.timeout_seconds + 5)

None == -1                     \* a NULL column / Python None in a numeric place
NoText == "None"               \* a NULL column / Python None in a text place

CHALLENGES == {"compression-v1"}
ChallengeIds == CHALLENGES \cup {"no-such-challenge"}
AgentIds == {"a1", "a2"}

VARIABLES
  submissions,   \* table submissions: row id (1..Len) -> row
  agents,        \* table agents: agent id -> [exists, last_submission_at]
  challenges,    \* table challenges: id -> [exists, best_score, best_agent_id]
  now,           \* datetime.utcnow(), in minutes
  handlers,      \* submit_solution calls in flight: slot -> [pc, req, compressed_size]
  workers        \* process_submission tasks: row id -> [pc, compressed_size, code, writes]

vars == <<submissions, agents, challenges, now, handlers, workers>>

\* ------------------------------------------------------------- requests
\* SubmissionCreate.compressed, a base64 text: `groups` blocks of four
\* characters, the last one with `pad` '=' signs; `malformed` when
\* base64.b64decode raises on it.
CompressedTexts ==
  { [groups |-> 1, pad |-> 0, malformed |-> FALSE],
    [groups |-> 2, pad |-> 1, malformed |-> FALSE],
    [groups |-> 1, pad |-> 0, malformed |-> TRUE] }

\* A node of the program's syntax tree as ast.walk yields it, by what the
\* validator and the interpreter look at: its class (Import, ImportFrom,
\* Call, Name, Attribute, Constant) and a name, as the sequence of its dotted
\* components: the module of an import (empty for `from . import x`, whose
\* node.module is None), the id of a Name, the id of the func of a Call when
\* that is a Name (empty otherwise), the attr of an Attribute, the value of a
\* string Constant.
Node(type, name) == [type |-> type, name |-> name]

\* a program text: whether ast.parse accepts it, the nodes of its tree, and
\* whether one of the shell patterns of _regex_checks matches the text
Source(parses, nodes, shell_like) ==
  [parses |-> parses, nodes |-> nodes, shell_like |-> shell_like]

\* a text with no import, no forbidden name, attribute or constant
PlainSource == Source(TRUE, << >>, FALSE)

\* SubmissionCreate.decompressor, a program text of `chars` characters of
\* which `wide` take two bytes in UTF-8, with syntax `source`, in which the
\* validator's walk of the tree has `violations` findings; `returns` is what
\* its decompress() does on the submitted data (the value it returns,
\* "loops", "no entry" when the text defines no decompress, or the class
\* name of the exception it raises) and `run_ms` how long a call that
\* returns takes.
Decompressors ==
  { [chars |-> 3, wide |-> 1, violations |-> 0, returns |-> "reference",
     run_ms |-> 5, source |-> PlainSource],
    [chars |-> 3, wide |-> 1, violations |-> 0, returns |-> "other",
     run_ms |-> 5, source |-> PlainSource] }

Requests ==
  [challenge_id : ChallengeIds, agent_id : AgentIds,
   compressed : CompressedTexts, decompressor : Decompressors]

\* base64.b64decode(text): the number of bytes decoded
B64DecodedLen(text) == 3 * text.groups - text.pad

\* len(text.encode('utf-8'))
Utf8Len(code) == code.chars + code.wide

\* ------------------------------------------------------------- validator
ValidByLength(code) == code.chars <= MAX_CODE_LENGTH

FORBIDDEN_MODULES ==
  {"os", "sys", "subprocess", "shutil", "pathlib", "glob", "fnmatch",
   "tempfile", "io", "socket", "http", "urllib", "requests", "httpx",
   "aiohttp", "websocket", "ssl", "ftplib", "smtplib", "poplib", "imaplib",
   "telnetlib", "multiprocessing", "threading", "concurrent", "_thread",
   "signal", "code", "codeop", "compile", "importlib", "runpy", "types",
   "builtins", "__builtins__", "inspect", "gc", "traceback", "linecache",
   "ctypes", "pickle", "shelve", "marshal", "pty", "tty", "termios", "fcntl",
   "resource", "mmap", "sysconfig", "fileinput", "stat", "filecmp"}

ALLOWED_MODULES ==
  {"collections", "heapq", "bisect", "array", "dataclasses", "enum", "typing",
   "math", "cmath", "decimal", "fractions", "random", "statistics", "string",
   "re", "struct", "codecs", "json", "base64", "binascii", "hashlib", "zlib",
   "gzip", "bz2", "lzma", "itertools", "functools", "operator", "time", "copy"}

FORBIDDEN_BUILTINS ==
  {"eval", "exec", "compile", "__import__", "open", "input", "breakpoint",
   "globals", "locals", "vars", "dir", "getattr", "setattr", "delattr",
   "hasattr", "memoryview"}

FORBIDDEN_ATTRIBUTES ==
  {"__class__", "__bases__", "__subclasses__", "__mro__", "__globals__",
   "__code__", "__builtins__", "__import__", "__loader__", "__spec__",
   "__dict__", "__slots__"}

\* a violation text f"{prefix}{name}{suffix}"
Violation(prefix, name, suffix) ==
  [prefix |-> prefix, name |-> name, suffix |-> suffix]

\* alias.name.split('.')[0], node.module.split('.')[0]
TopLevel(name) == name[1]

\* lines 173-176: a Call whose func is a Name in forbidden_builtins
ForbiddenCall(node) ==
  IF /\ node.type = "Call"
     /\ node.name # << >>
     /\ node.name[1] \in FORBIDDEN_BUILTINS
    THEN <<Violation("Forbidden builtin: ", node.name[1], "()")>>
  ELSE << >>

ImportOnlyIfForbidden(prefix, module) ==
  IF module \in FORBIDDEN_MODULES
    THEN <<Violation("Forbidden import: " \o prefix, module, "")>>
  ELSE << >>

\* lines 158-161 and 167-170: the finding for an imported top-level module
ImportViolations(prefix, module) ==
  IF module \in FORBIDDEN_MODULES
    THEN <<Violation("Forbidden import: " \o prefix, module, "")>>
  ELSE IF module \notin ALLOWED_MODULES
    THEN <<Violation("Disallowed import: " \o prefix, module, " (not in whitelist)")>>
  ELSE << >>

\* the body of the loop over ast.walk(tree), lines 153-189: the findings for
\* one node
NodeViolations(node) ==
  CASE node.type = "Import" -> ImportViolations("", TopLevel(node.name))
    [] node.type = "ImportFrom" ->
         IF node.name = << >> THEN << >>
         ELSE ImportViolations("from ", TopLevel(node.name))
    [] node.type = "Call" -> ForbiddenCall(node)
    [] node.type = "Attribute" ->
         IF node.name[1] \in FORBIDDEN_ATTRIBUTES
           THEN <<Violation("Forbidden attribute access: .", node.name[1], "")>>
         ELSE << >>
    [] node.type = "Constant" ->
         IF node.name # << >> /\ node.name[1] \in FORBIDDEN_ATTRIBUTES
           THEN <<Violation("Suspicious string constant: '", node.name[1], "'")>>
         ELSE << >>
    [] OTHER -> << >>

\* lines 157 and 166: what the node adds to imports_used
NodeImports(node) ==
  IF \/ node.type = "Import"
     \/ node.type = "ImportFrom" /\ node.name # << >>
    THEN {TopLevel(node.name)}
  ELSE {}

\* the loop over ast.walk(tree): the findings in the order of the nodes
RECURSIVE WalkViolations(_)
WalkViolations(nodes) ==
  IF nodes = << >> THEN << >>
  ELSE NodeViolations(Head(nodes)) \o WalkViolations(Tail(nodes))

\* _regex_checks(code): one finding when a shell pattern matches
RegexChecks(code) ==
  IF code.source.shell_like
    THEN <<Violation("Suspicious shell-like pattern detected", "", "")>>
  ELSE << >>

ValidationResult(valid, violations, imports_used) ==
  [valid |-> valid, violations |-> violations, imports_used |-> imports_used]

\* CodeValidator.validate(code)
Validate(code) ==
  IF code.chars > MAX_CODE_LENGTH
    THEN ValidationResult(FALSE,
           <<Violation("Code exceeds maximum length", "", "")>>, {})
  ELSE IF ~code.source.parses
    THEN ValidationResult(FALSE, <<Violation("Syntax error: ", "", "")>>, {})
  ELSE LET violations == WalkViolations(code.source.nodes) \o RegexChecks(code)
       IN  ValidationResult(Len(violations) = 0, violations,
             UNION { NodeImports(code.source.nodes[k]) :
                       k \in DOMAIN code.source.nodes })

\* CodeValidator.validate(code).valid
Valid(code) == Validate(code).valid

\* -------------------------------------------------------------- executor
\* A Python value by what the evaluator looks at: whether it is a bytes
\* object, its length, and the first index at which it differs from the
\* reference input within their common length (None when it does not).
ORIGINAL_DATA == [is_bytes |-> TRUE, length |-> REFERENCE_SIZE, first_diff |-> None]
NoValue == [is_bytes |-> FALSE, length |-> 0, first_diff |-> None]

ReturnKinds ==
  {"reference", "other", "early", "shorter", "shorter other", "longer", "big", "notbytes"}

\* the value decompress(data) returns
ReturnValue(code) ==
  CASE code.returns = "reference" -> ORIGINAL_DATA
    [] code.returns = "other" ->
         [ORIGINAL_DATA EXCEPT !.first_diff = REFERENCE_SIZE - 1]
    [] code.returns = "early" -> [ORIGINAL_DATA EXCEPT !.first_diff = 0]
    [] code.returns = "shorter" -> [ORIGINAL_DATA EXCEPT !.length = REFERENCE_SIZE - 1]
    [] code.returns = "shorter other" ->
         [ORIGINAL_DATA EXCEPT !.length = REFERENCE_SIZE - 1, !.first_diff = 2]
    [] code.returns = "longer" -> [ORIGINAL_DATA EXCEPT !.length = REFERENCE_SIZE + 1]
    [] code.returns = "big" -> [ORIGINAL_DATA EXCEPT !.length = ChannelCapacity + 1]
    [] code.returns = "notbytes" -> [ORIGINAL_DATA EXCEPT !.is_bytes = FALSE]

ExecutionResult(success, result, error, error_type, ms, spawned) ==
  [success |-> success, result |-> result, error |-> error,
   error_type |-> error_type, execution_time_ms |-> ms,
   spawned |-> spawned]    \* spawned: whether process.start() was reached

\* the keys of RESTRICTED_BUILTINS
RESTRICTED_BUILTINS ==
  {"None", "True", "False", "int", "float", "bool", "str", "bytes",
   "bytearray", "list", "tuple", "dict", "set", "frozenset", "abs", "all",
   "any", "bin", "chr", "divmod", "enumerate", "filter", "hex", "isinstance",
   "issubclass", "iter", "len", "map", "max", "min", "next", "oct", "ord",
   "pow", "print", "range", "repr", "reversed", "round", "slice", "sorted",
   "sum", "zip", "Exception", "ValueError", "TypeError", "KeyError",
   "IndexError", "RuntimeError", "StopIteration", "ZeroDivisionError",
   "OverflowError"}

\* the keys of allowed_imports: the modules put into the program's globals
ALLOWED_IMPORTS ==
  {"zlib", "gzip", "bz2", "lzma", "hashlib", "base64", "struct", "json",
   "math", "itertools", "functools", "collections", "heapq", "bisect", "re",
   "copy", "time"}

\* the names a program can read without defining them: its globals
\* (__builtins__, __name__, __doc__ and the modules) and the restricted
\* builtins
VisibleNames ==
  RESTRICTED_BUILTINS \cup ALLOWED_IMPORTS \cup {"__builtins__", "__name__", "__doc__"}

NoRaise == [error_type |-> NoText, error |-> NoText]

\* what the interpreter raises on executing one node under restricted_globals:
\* an import statement looks __import__ up in the builtins, which have none;
\* a name that is neither defined nor visible is a NameError
NodeRaises(node) ==
  IF node.type \in {"Import", "ImportFrom"}
    THEN [error_type |-> "ImportError", error |-> "__import__ not found"]
  ELSE IF node.type = "Name" /\ node.name[1] \notin VisibleNames
    THEN [error_type |-> "NameError",
          error |-> "name '" \o node.name[1] \o "' is not defined"]
  ELSE NoRaise

\* exec(code, restricted_globals) and the call of the entry function, lines
\* 256-267, for the nodes of the text in the order they are executed: the
\* first exception raised
RECURSIVE FirstRaise(_)
FirstRaise(nodes) ==
  IF nodes = << >> THEN NoRaise
  ELSE IF NodeRaises(Head(nodes)) # NoRaise THEN NodeRaises(Head(nodes))
  ELSE FirstRaise(Tail(nodes))

\* _run_in_sandbox of a program that does not loop: the result the child
\* puts on the queue
RunInSandbox(code) ==
  CASE FirstRaise(code.source.nodes) # NoRaise ->
         ExecutionResult(FALSE, NoValue, FirstRaise(code.source.nodes).error,
                         FirstRaise(code.source.nodes).error_type, 0, TRUE)
    [] code.returns \in ReturnKinds ->
         ExecutionResult(TRUE, ReturnValue(code), NoText, NoText, code.run_ms, TRUE)
    [] code.returns = "no entry" ->
         ExecutionResult(FALSE, NoValue, "Entry function 'decompress' not found in code",
                         "ValueError", 0, TRUE)
    [] code.returns = "not callable" ->
         ExecutionResult(FALSE, NoValue, "'decompress' is not callable",
                         "ValueError", 0, TRUE)
    [] OTHER ->   \* except Exception as e: type(e).__name__
         ExecutionResult(FALSE, NoValue, "raised", code.returns, 0, TRUE)

\* the bytes the queue's feeder thread writes to the pipe for a result
SerializedSize(result) == result.result.length

\* lines 389-398: the synthetic result after terminate()
TimeoutResult ==
  ExecutionResult(FALSE, NoValue, "Execution timeout", "TimeoutError",
                  SANDBOX_TIMEOUT_SECONDS * 1000, TRUE)

\* lines 404-414: result_queue.get raised
NoResult ==
  ExecutionResult(FALSE, NoValue, "Failed to get result from sandbox",
                  "SandboxError", 0, TRUE)

\* exception classes that `except Exception` (line 278) does not catch: the
\* child ends with the exception and puts nothing on the queue
UNCAUGHT == {"BaseException", "KeyboardInterrupt", "SystemExit", "GeneratorExit"}

\* SandboxExecutor.execute(code, "decompress", (data,)).  cpu_killed: the
\* child of a program that loops is killed at its RLIMIT_CPU of
\* timeout_seconds before the parent's join of timeout_seconds + 5 ends (it
\* is not where the limit cannot be set or the child gets too little CPU).
\* A child whose result does not fit the pipe cannot exit before the parent
\* reads, and the parent reads only after the join.  A program that raises
\* while it is loaded never reaches its loop or its wait.  A child that is still
\* running when the join of timeout_seconds + 5 ends is terminated; one that
\* ends before that has its own measurement of the time it took returned.
Execute(code, cpu_killed) ==
  IF ~Valid(code)
    THEN ExecutionResult(FALSE, NoValue, "Code validation failed",
                         "ValidationError", 0, FALSE)
  ELSE IF FirstRaise(code.source.nodes) # NoRaise
    THEN RunInSandbox(code)
  ELSE IF code.returns = "loops"
    THEN IF cpu_killed THEN NoResult ELSE TimeoutResult
  ELSE IF code.run_ms >= (SANDBOX_TIMEOUT_SECONDS + JOIN_GRACE_SECONDS) * 1000
    THEN TimeoutResult
  ELSE IF code.returns \in UNCAUGHT
    THEN NoResult
  ELSE IF SerializedSize(RunInSandbox(code)) > ChannelCapacity
    THEN TimeoutResult
  ELSE RunInSandbox(code)

\* the setrlimit calls of _set_resource_limits, in their order
RLIMITS ==
  <<"RLIMIT_AS", "RLIMIT_CPU", "RLIMIT_NPROC", "RLIMIT_FSIZE", "RLIMIT_CORE">>

\* which of the five calls is the first the host refuses (ValueError or
\* resource.error); 0 when it refuses none
SetrlimitFailures == 0 .. Len(RLIMITS)

\* _set_resource_limits: the limits in force when it returns.  The five calls
\* are in one try block, whose handler prints a warning: the calls after the
\* one that raises are skipped, and the function returns normally
SetResourceLimits(first_failure) ==
  { RLIMITS[k] : k \in 1 .. (IF first_failure = 0 THEN Len(RLIMITS)
                             ELSE first_failure - 1) }

\* the outcomes of the race between RLIMIT_CPU and the parent's join that
\* the host may produce for a program; a program that does not loop uses no
\* CPU time to speak of
CpuKilledChoices(code) == IF code.returns = "loops" THEN BOOLEAN ELSE {FALSE}

\* ------------------------------------------------------------ evaluator
Failure(error, error_code, ms) ==
  [success |-> FALSE, score |-> None, error |-> error,
   error_code |-> error_code, execution_time_ms |-> ms,
   executed |-> FALSE]     \* executed: whether the executor was invoked

ScoreCompressedOnly(compressed_size, code_size) == compressed_size

\* score = compressed_size + code_size
Score(compressed_size, code_size) == compressed_size + code_size

AtLeast(size, limit) == size >= limit

\* code_size > 100_000, compressed_size > len(original_data) * 2
Exceeds(size, limit) == size > limit

PreCheckCodeFirst(compressed_size, code_size) ==
  IF code_size = 0
    THEN Failure("Decompressor code is empty", "EMPTY_DECOMPRESSOR", 0)
  ELSE IF compressed_size = 0
    THEN Failure("Compressed data is empty", "EMPTY_COMPRESSED", 0)
  ELSE IF Exceeds(code_size, CODE_SIZE_LIMIT)
    THEN Failure("Decompressor code too large", "CODE_TOO_LARGE", 0)
  ELSE IF Exceeds(compressed_size, REFERENCE_SIZE * 2)
    THEN Failure("Compressed data larger than 2x original",
                 "COMPRESSED_TOO_LARGE", 0)
  ELSE [Failure(NoText, NoText, 0) EXCEPT !.success = TRUE]

\* evaluate, lines 157-196: the result of the first check that fails, or a
\* record with success TRUE when all four pass
PreCheck(compressed_size, code_size) ==
  IF compressed_size = 0
    THEN Failure("Compressed data is empty", "EMPTY_COMPRESSED", 0)
  ELSE IF code_size = 0
    THEN Failure("Decompressor code is empty", "EMPTY_DECOMPRESSOR", 0)
  ELSE IF Exceeds(code_size, CODE_SIZE_LIMIT)
    THEN Failure("Decompressor code too large", "CODE_TOO_LARGE", 0)
  ELSE IF Exceeds(compressed_size, REFERENCE_SIZE * 2)
    THEN Failure("Compressed data larger than 2x original",
                 "COMPRESSED_TOO_LARGE", 0)
  ELSE [Failure(NoText, NoText, 0) EXCEPT !.success = TRUE]

SameLength(decompressed, original) == decompressed.length = original.length

\* decompressed != original_data is false
BytesEqual(decompressed, original) ==
  /\ decompressed.length = original.length
  /\ decompressed.first_diff = None

\* the bytes of a bytes value: those of the reference input (byte k of it is
\* k modulo 256, whatever the file holds) up to the value's first difference,
\* and other bytes from there on
Bytes(value) ==
  [k \in 1 .. value.length |->
     IF value.first_diff # None /\ k - 1 >= value.first_diff
       THEN (k + 1) % 256
       ELSE k % 256]

Min(a, b) == IF a <= b THEN a ELSE b

\* lines 233-237: for i, (a, b) in enumerate(zip(original_data,
\* decompressed)), from index i on; None when the loop ends without a break
RECURSIVE FirstDiff(_, _, _)
FirstDiff(original_data, decompressed, i) ==
  IF i >= Min(Len(original_data), Len(decompressed)) THEN None
  ELSE IF original_data[i + 1] # decompressed[i + 1] THEN i
  ELSE FirstDiff(original_data, decompressed, i + 1)

DiffPosOfLoop(original_data, decompressed) ==
  FirstDiff(original_data, decompressed, 0)

\* lines 232-239: diff_pos
DiffPos(original_data, decompressed) ==
  LET diff_pos == FirstDiff(original_data, decompressed, 0)
  IN  IF diff_pos = None /\ Len(original_data) # Len(decompressed)
        THEN Min(Len(original_data), Len(decompressed))
        ELSE diff_pos

\* lines 241-256: the keys of breakdown that only the result with
\* DECOMPRESSION_MISMATCH has, for the value decompress() returned
MismatchBreakdown(decompressed) ==
  [expected_size |-> Len(Bytes(ORIGINAL_DATA)),
   actual_size |-> Len(Bytes(decompressed)),
   first_diff_at |-> DiffPos(Bytes(ORIGINAL_DATA), Bytes(decompressed))]

\* CompressionChallenge.evaluate(compressed_data, decompressor_code): the
\* fields of the result that process_submission reads
Evaluate(compressed_size, decompressor_code, cpu_killed) ==
  LET code_size == Utf8Len(decompressor_code)
      checked == PreCheck(compressed_size, code_size)
      result == Execute(decompressor_code, cpu_killed)
      Failed(error, error_code) ==
        [Failure(error, error_code, result.execution_time_ms)
           EXCEPT !.executed = TRUE]
  IN  IF ~checked.success THEN checked
      ELSE IF ~result.success
        THEN Failed("Decompression failed: " \o result.error,
                    IF result.error_type = NoText THEN "DECOMPRESSION_ERROR"
                    ELSE "DECOMPRESSION_" \o result.error_type)
      ELSE IF ~result.result.is_bytes
        THEN Failed("decompress() must return bytes", "WRONG_RETURN_TYPE")
      ELSE IF ~BytesEqual(result.result, ORIGINAL_DATA)
        THEN Failed("Decompressed output doesn't match original",
                    "DECOMPRESSION_MISMATCH")
      ELSE [success |-> TRUE, score |-> Score(compressed_size, code_size),
            error |-> NoText, error_code |-> NoText,
            execution_time_ms |-> result.execution_time_ms,
            executed |-> TRUE]

\* ---------------------------------------------------------------- tables
Handlers == {"h1", "h2"}
Ids == DOMAIN submissions

NoRequest ==
  [challenge_id |-> "no-such-challenge", agent_id |-> "a1",
   compressed |-> [groups |-> 1, pad |-> 0, malformed |-> TRUE],
   decompressor |-> [chars |-> 3, wide |-> 1, violations |-> 0,
                     returns |-> "other", run_ms |-> 5, source |-> PlainSource]]
IdleHandler == [pc |-> "idle", req |-> NoRequest, compressed_size |-> 0]
NoWrites == [ranks |-> {}, best |-> {}]

Init ==
  /\ submissions = << >>
  /\ agents = [a \in AgentIds |-> [exists |-> FALSE, last_submission_at |-> None]]
  /\ challenges = [c \in CHALLENGES |->
                     [exists |-> FALSE, best_score |-> None, best_agent_id |-> NoText]]
  /\ now = 0
  /\ handlers = [h \in Handlers |-> IdleHandler]
  /\ workers = << >>

\* ------------------------------------------------------- submit_solution
GetOrCreateAgentStamped(agent_id) ==
  IF agents[agent_id].exists THEN agents
  ELSE [agents EXCEPT ![agent_id] = [exists |-> TRUE, last_submission_at |-> now]]

\* get_or_create_agent(db, agent_id): the agents table afterwards
GetOrCreateAgent(agent_id) ==
  IF agents[agent_id].exists THEN agents
  ELSE [agents EXCEPT ![agent_id] = [exists |-> TRUE, last_submission_at |-> None]]

\* Submission.created_at > one_hour_ago
Recent(created_at, one_hour_ago) == created_at > one_hour_ago

\* check_rate_limit: the count of the query
RecentSubmissions(agent_id, challenge_id) ==
  Cardinality({ i \in Ids :
     /\ submissions[i].agent_id = agent_id
     /\ submissions[i].challenge_id = challenge_id
     /\ Recent(submissions[i].created_at, now - WINDOW_MINUTES) })

RateLimitedAbove(recent_submissions) == recent_submissions > SUBMISSIONS_PER_HOUR

\* check_rate_limit: whether it raises the 429
RateLimited(recent_submissions) == recent_submissions >= SUBMISSIONS_PER_HOUR

\* submit_solution, lines 151-169: the first check that rejects the request
SubmitOutcome(req) ==
  IF req.challenge_id \notin CHALLENGES THEN "NOT_FOUND"
  ELSE IF RateLimited(RecentSubmissions(req.agent_id, req.challenge_id))
    THEN "RATE_LIMITED"
  ELSE IF req.compressed.malformed THEN "INVALID_BASE64"
  ELSE "ACCEPTED"

\* lines 151-154: the agents table after get_challenge and
\* get_or_create_agent; get_challenge raises the 404 before the agent is
\* looked up
SubmitAgents(req) ==
  IF SubmitOutcome(req) = "NOT_FOUND" THEN agents
  ELSE GetOrCreateAgent(req.agent_id)

\* the response of submit_solution to req in the current state
SubmitResponse(req) ==
  LET outcome == SubmitOutcome(req)
  IN  CASE outcome = "NOT_FOUND" ->
             [code |-> 404, error_code |-> NoText, retry_after_seconds |-> None,
              submission_id |-> None, status |-> "error"]
        [] outcome = "RATE_LIMITED" ->
             [code |-> 429, error_code |-> "RATE_LIMITED",
              retry_after_seconds |-> RETRY_AFTER_SECONDS,
              submission_id |-> None, status |-> "error"]
        [] outcome = "INVALID_BASE64" ->
             [code |-> 400, error_code |-> "INVALID_BASE64",
              retry_after_seconds |-> None,
              submission_id |-> None, status |-> "error"]
        [] OTHER ->
             [code |-> 200, error_code |-> NoText, retry_after_seconds |-> None,
              submission_id |-> Len(submissions) + 1, status |-> "pending"]

InsertSubmissionOnly(agent_rows, req, compressed_size) ==
  /\ submissions' = Append(submissions,
       [agent_id |-> req.agent_id, challenge_id |-> req.challenge_id,
        compressed_size_bytes |-> compressed_size,
        decompressor_size_bytes |-> Utf8Len(req.decompressor),
        score |-> 0, status |-> "pending", error_message |-> NoText,
        execution_time_ms |-> 0, rank |-> None, created_at |-> now])
  /\ agents' = agent_rows
  /\ workers' = Append(workers,
       [pc |-> "queued", compressed_size |-> compressed_size,
        code |-> req.decompressor, writes |-> NoWrites])

\* submit_solution, lines 172-195: the new row, agent.last_submission_at,
\* db.commit() and background_tasks.add_task; agent_rows is the agents table
\* the handler's get_or_create_agent left
InsertSubmission(agent_rows, req, compressed_size) ==
  /\ submissions' = Append(submissions,
       [agent_id |-> req.agent_id, challenge_id |-> req.challenge_id,
        compressed_size_bytes |-> compressed_size,
        decompressor_size_bytes |-> Utf8Len(req.decompressor),
        score |-> 0, status |-> "pending", error_message |-> NoText,
        execution_time_ms |-> 0, rank |-> None, created_at |-> now])
  /\ agents' = [agent_rows EXCEPT ![req.agent_id].last_submission_at = now]
  /\ workers' = Append(workers,
       [pc |-> "queued", compressed_size |-> compressed_size,
        code |-> req.decompressor, writes |-> NoWrites])

\* submit_solution run from request to response with no other handler in
\* between: the handler is a coroutine that never awaits, so the handlers of
\* one server process run one after the other
Submit(req) ==
  /\ \A h \in Handlers : handlers[h].pc = "idle"
  /\ IF SubmitOutcome(req) = "ACCEPTED"
       THEN InsertSubmission(GetOrCreateAgent(req.agent_id), req,
                             B64DecodedLen(req.compressed))
     ELSE /\ agents' = SubmitAgents(req)
          /\ agents' # agents
          /\ UNCHANGED <<submissions, workers>>
  /\ UNCHANGED <<challenges, now, handlers>>

\* submit_solution in a server of several processes on one database, where
\* the handler of another process may run between two statements.  First
\* part, lines 151-169: get_challenge, get_or_create_agent (which commits),
\* check_rate_limit and base64.b64decode
SubmitCheck(h, req) ==
  /\ handlers[h].pc = "idle"
  /\ agents' = SubmitAgents(req)
  /\ handlers' = IF SubmitOutcome(req) = "ACCEPTED"
       THEN [handlers EXCEPT ![h] =
               [pc |-> "insert", req |-> req,
                compressed_size |-> B64DecodedLen(req.compressed)]]
       ELSE handlers
  /\ <<agents', handlers'>> # <<agents, handlers>>
  /\ UNCHANGED <<submissions, challenges, now, workers>>

\* get_or_create_agent in a server of several processes, line 23: the query
\* finds no row for the agent
AgentQuery(h, req) ==
  /\ handlers[h].pc = "idle"
  /\ req.challenge_id \in CHALLENGES
  /\ ~agents[req.agent_id].exists
  /\ handlers' = [handlers EXCEPT ![h] =
       [pc |-> "create", req |-> req, compressed_size |-> 0]]
  /\ UNCHANGED <<submissions, agents, challenges, now, workers>>

\* lines 25-32: db.add(agent), db.commit().  The INSERT of a primary key
\* that another handler has committed since the query raises IntegrityError
\* out of submit_solution; otherwise the handler goes on with
\* check_rate_limit and base64.b64decode (lines 158-169)
AgentCommit(h) ==
  LET req == handlers[h].req
  IN  /\ handlers[h].pc = "create"
      /\ IF agents[req.agent_id].exists
           THEN /\ handlers' = [handlers EXCEPT ![h].pc = "integrity_error"]
                /\ UNCHANGED agents
         ELSE /\ agents' = GetOrCreateAgent(req.agent_id)
              /\ handlers' = IF SubmitOutcome(req) = "ACCEPTED"
                   THEN [handlers EXCEPT ![h] =
                           [pc |-> "insert", req |-> req,
                            compressed_size |-> B64DecodedLen(req.compressed)]]
                   ELSE [handlers EXCEPT ![h] = IdleHandler]
      /\ UNCHANGED <<submissions, challenges, now, workers>>

\* global_exception_handler: the request ends with 500 INTERNAL_ERROR
HandlerRaises(h) ==
  /\ handlers[h].pc = "integrity_error"
  /\ handlers' = [handlers EXCEPT ![h] = IdleHandler]
  /\ UNCHANGED <<submissions, agents, challenges, now, workers>>

\* second part, lines 172-203
SubmitInsert(h) ==
  /\ handlers[h].pc = "insert"
  /\ InsertSubmission(agents, handlers[h].req, handlers[h].compressed_size)
  /\ handlers' = [handlers EXCEPT ![h] = IdleHandler]
  /\ UNCHANGED <<challenges, now>>

\* ------------------------------------------------ update_leaderboard_ranks
\* the rows the query of update_leaderboard_ranks selects
ScoredIds(challenge_id) ==
  { i \in Ids : /\ submissions[i].challenge_id = challenge_id
                /\ submissions[i].status = "scored" }

\* .order_by(Submission.score.asc()).all(): the orders the store may return
\* (rows of equal score come in an order the query does not fix)
ScoreOrders(S) ==
  { ord \in [1 .. Cardinality(S) -> S] :
      /\ \A p, q \in DOMAIN ord : p # q => ord[p] # ord[q]
      /\ \A p, q \in DOMAIN ord :
           p < q => submissions[ord[p]].score <= submissions[ord[q]].score }

RankAtDense(ord, rank_of, p) ==
  IF p = 1 THEN 1
  ELSE IF submissions[ord[p]].score > submissions[ord[p - 1]].score
    THEN rank_of[p - 1] + 1
  ELSE rank_of[p - 1]

\* the loop body: current_rank after the row at (1-based) position p
RankAt(ord, rank_of, p) ==
  IF p = 1 THEN 1
  ELSE IF submissions[ord[p]].score > submissions[ord[p - 1]].score THEN p
  ELSE rank_of[p - 1]

\* the loop of update_leaderboard_ranks over the selected rows: position -> rank
RECURSIVE WalkRanks(_, _, _)
WalkRanks(ord, rank_of, p) ==
  IF p > Len(ord) THEN rank_of
  ELSE WalkRanks(ord, Append(rank_of, RankAt(ord, rank_of, p)), p + 1)

\* what the session flushes at db.commit(): the attributes whose new value
\* differs from the one loaded by the queries
RankWrites(challenge_id, ord) ==
  LET rank_of == WalkRanks(ord, << >>, 1)
      best == ord[1]
      challenge == challenges[challenge_id]
  IN  [ranks |-> { <<ord[p], rank_of[p]>> : p \in
                     { q \in DOMAIN ord : submissions[ord[q]].rank # rank_of[q] } },
       best |-> IF /\ Len(ord) > 0
                   /\ challenge.exists
                   /\ \/ challenge.best_score # submissions[best].score
                      \/ challenge.best_agent_id # submissions[best].agent_id
                THEN { <<submissions[best].score, submissions[best].agent_id>> }
                ELSE {}]

\* -------------------------------------------------- process_submission
\* lines 96-102: look the row up, status = "processing", commit
WorkerStart(i) ==
  /\ workers[i].pc = "queued"
  /\ submissions' = [submissions EXCEPT ![i].status = "processing"]
  /\ workers' = [workers EXCEPT ![i].pc = "evaluating"]
  /\ UNCHANGED <<agents, challenges, now, handlers>>

WorkerEvaluateThenRanks(i) ==
  /\ workers[i].pc = "evaluating"
  /\ \E cpu_killed \in CpuKilledChoices(workers[i].code) :
       LET result == Evaluate(workers[i].compressed_size, workers[i].code, cpu_killed)
       IN  /\ submissions' = [submissions EXCEPT
                ![i].score = IF result.score = None THEN 0 ELSE result.score,
                ![i].status = IF result.success THEN "scored" ELSE "error",
                ![i].error_message = result.error,
                ![i].execution_time_ms = result.execution_time_ms]
           /\ workers' = [workers EXCEPT ![i].pc = "ranking"]
  /\ UNCHANGED <<agents, challenges, now, handlers>>

\* lines 105-121: evaluate, write the result to the row, commit; the call of
\* update_leaderboard_ranks follows only if result.success
WorkerEvaluate(i) ==
  /\ workers[i].pc = "evaluating"
  /\ \E cpu_killed \in CpuKilledChoices(workers[i].code) :
       LET result == Evaluate(workers[i].compressed_size, workers[i].code, cpu_killed)
       IN  /\ submissions' = [submissions EXCEPT
                ![i].score = IF result.score = None THEN 0 ELSE result.score,
                ![i].status = IF result.success THEN "scored" ELSE "error",
                ![i].error_message = result.error,
                ![i].execution_time_ms = result.execution_time_ms]
           /\ workers' = [workers EXCEPT
                ![i].pc = IF result.success THEN "ranking" ELSE "done"]
  /\ UNCHANGED <<agents, challenges, now, handlers>>

ExceptionHandlerKeepsRow(i) ==
  /\ workers' = [workers EXCEPT ![i].pc = "done", ![i].writes = NoWrites]
  /\ UNCHANGED <<submissions, agents, challenges, now, handlers>>

ExceptionHandlerRetries(i) ==
  /\ submissions' = [submissions EXCEPT
       ![i].status = "error", ![i].error_message = "Internal error"]
  /\ workers' = [workers EXCEPT ![i].pc = "queued", ![i].writes = NoWrites]
  /\ UNCHANGED <<agents, challenges, now, handlers>>

\* lines 123-129: the handler of an exception raised in the try block
ExceptionHandler(i) ==
  /\ submissions' = [submissions EXCEPT
       ![i].status = "error", ![i].error_message = "Internal error"]
  /\ workers' = [workers EXCEPT ![i].pc = "done", ![i].writes = NoWrites]
  /\ UNCHANGED <<agents, challenges, now, handlers>>

\* line 106 raises (the executor's child process cannot be started,
\* input.bin cannot be read): control passes to the handler
WorkerEvaluateRaises(i) ==
  /\ workers[i].pc = "evaluating"
  /\ ExceptionHandler(i)

\* lines 59-77 of update_leaderboard_ranks, called at line 121: the two
\* queries and the loop; the session holds the changes until the commit
WorkerRankSelect(i) ==
  /\ workers[i].pc = "ranking"
  /\ \E ord \in ScoreOrders(ScoredIds(submissions[i].challenge_id)) :
       workers' = [workers EXCEPT
          ![i].pc = "committing",
          ![i].writes = RankWrites(submissions[i].challenge_id, ord)]
  /\ UNCHANGED <<submissions, agents, challenges, now, handlers>>

\* the query at line 59 raises (sqlite3.OperationalError while another
\* connection holds the database lock): control passes to the handler
WorkerRankRaises(i) ==
  /\ workers[i].pc = "ranking"
  /\ ExceptionHandler(i)

\* line 79: db.commit() of update_leaderboard_ranks
WorkerRankCommit(i) ==
  LET w == workers[i].writes
      c == submissions[i].challenge_id
  IN  /\ workers[i].pc = "committing"
      /\ submissions' = [j \in Ids |->
           IF \E wr \in w.ranks : wr[1] = j
             THEN [submissions[j] EXCEPT
                     !.rank = (CHOOSE wr \in w.ranks : wr[1] = j)[2]]
           ELSE submissions[j]]
      /\ challenges' = IF w.best = {} THEN challenges
           ELSE LET b == CHOOSE b \in w.best : TRUE
                IN  [challenges EXCEPT ![c].best_score = b[1],
                                       ![c].best_agent_id = b[2]]
      /\ workers' = [workers EXCEPT ![i].pc = "done", ![i].writes = NoWrites]
      /\ UNCHANGED <<agents, now, handlers>>

\* ------------------------------------------------------ other endpoints
NotFoundView ==
  [code |-> 404, status |-> NoText, score |-> None, rank |-> None,
   execution_time_ms |-> None, error |-> NoText]

\* get_submission_status(submission_id): the response in the current state
StatusView(submission_id) ==
  IF submission_id \notin Ids THEN NotFoundView
  ELSE LET sub == submissions[submission_id]
       IN  IF sub.status \in {"scored", "error"}
             THEN [code |-> 200, status |-> sub.status,
                   score |-> IF sub.status = "scored" THEN sub.score ELSE None,
                   rank |-> sub.rank,
                   execution_time_ms |-> sub.execution_time_ms,
                   error |-> sub.error_message]
           ELSE [NotFoundView EXCEPT !.code = 200, !.status = sub.status]

\* lines 259-274 of get_leaderboard: the rows the join keeps, the scored rows
\* of the challenge whose score equals the minimum score of their agent's
\* scored rows of the challenge
BestPerAgent(challenge_id) ==
  { i \in ScoredIds(challenge_id) :
      \A j \in ScoredIds(challenge_id) :
        submissions[j].agent_id = submissions[i].agent_id =>
          submissions[i].score <= submissions[j].score }

\* lines 277-287: the entry at (1-based) position p of the rows selected
LeaderboardEntry(ord, p) ==
  [rank |-> p,
   agent_id |-> submissions[ord[p]].agent_id,
   score |-> submissions[ord[p]].score,
   compressed_size_bytes |-> submissions[ord[p]].compressed_size_bytes,
   decompressor_size_bytes |-> submissions[ord[p]].decompressor_size_bytes,
   submitted_at |-> submissions[ord[p]].created_at]

\* get_leaderboard(challenge_id, limit) for a challenge of the registry: the
\* responses the store's order of equal scores allows
Leaderboard(challenge_id, limit) ==
  { [entries |-> [p \in 1 .. (IF limit < Len(ord) THEN limit ELSE Len(ord)) |->
                    LeaderboardEntry(ord, p)],
     total_submissions |->
       Cardinality({ i \in Ids : submissions[i].challenge_id = challenge_id }),
     unique_agents |->
       Cardinality({ submissions[i].agent_id :
                       i \in { j \in Ids : submissions[j].challenge_id = challenge_id } })] :
      ord \in ScoreOrders(BestPerAgent(challenge_id)) }

\* list_challenges: create the Challenge rows that are missing
ListChallenges ==
  /\ \E c \in CHALLENGES : ~challenges[c].exists
  /\ challenges' = [c \in CHALLENGES |->
       IF challenges[c].exists THEN challenges[c]
       ELSE [exists |-> TRUE, best_score |-> None, best_agent_id |-> NoText]]
  /\ UNCHANGED <<submissions, agents, now, handlers, workers>>

\* the instants at which the clock is read: t, and t plus just under,
\* exactly and just over the window
Instants == {0, WINDOW_MINUTES - 1, WINDOW_MINUTES, WINDOW_MINUTES + 1}

\* the wall clock advances to a later instant
Tick(t) ==
  /\ t > now
  /\ now' = t
  /\ UNCHANGED <<submissions, agents, challenges, handlers, workers>>

\* ------------------------------------------------------- specifications
WorkerStep(i) ==
  \/ WorkerStart(i)
  \/ WorkerEvaluate(i)
  \/ WorkerEvaluateRaises(i)
  \/ WorkerRankSelect(i)
  \/ WorkerRankRaises(i)
  \/ WorkerRankCommit(i)

\* the requests of Spec: two agents; payloads of 3 and 5 bytes; a
\* decompressor of 4 bytes that reproduces the input and one that does not
SpecRequests ==
  { r \in Requests :
      /\ r.decompressor.chars = 3
      /\ r.compressed.malformed => r.compressed.groups = 1 }

Next ==
  \/ \E req \in SpecRequests : Len(submissions) < MaxSubs /\ Submit(req)
  \/ \E i \in Ids : WorkerStep(i)
  \/ ListChallenges

Spec == Init /\ [][Next]_vars

\* the requests of SpecRate: two agents, one well-formed payload and one
\* malformed, a decompressor that does not reproduce the input
RateRequests ==
  { r \in Requests :
      /\ r.decompressor.returns = "other"
      /\ r.compressed.groups = 1 }

NextRate ==
  \/ \E h \in Handlers, req \in RateRequests : SubmitCheck(h, req)
  \/ \E h \in Handlers : Len(submissions) < MaxRateSubs /\ SubmitInsert(h)
  \/ \E i \in Ids : WorkerStart(i) \/ WorkerEvaluate(i)
  \/ \E t \in Instants : Tick(t)

\* concurrent submit handlers, the clock, and workers that run to the end
SpecRate == Init /\ [][NextRate]_vars

NextReject ==
  \/ \E req \in RateRequests : Len(submissions) < MaxRateSubs /\ Submit(req)
  \/ \E t \in Instants : Tick(t)

\* the submit handlers of one server process, one after the other, and the
\* clock; no row is evaluated
SpecReject == Init /\ [][NextReject]_vars

NextAgent ==
  \/ \E h \in Handlers, req \in RateRequests :
       \/ AgentQuery(h, req)
       \/ agents[req.agent_id].exists /\ SubmitCheck(h, req)
  \/ \E h \in Handlers :
       \/ AgentCommit(h)
       \/ HandlerRaises(h)
       \/ Len(submissions) < MaxSubs /\ SubmitInsert(h)

\* concurrent submit handlers with get_or_create_agent in its two steps, the
\* query and the commit of the new row
SpecAgent == Init /\ [][NextAgent]_vars

\* the store after GET /challenges has created the Challenge rows
InitListed ==
  /\ submissions = << >>
  /\ agents = [a \in AgentIds |-> [exists |-> FALSE, last_submission_at |-> None]]
  /\ challenges = [c \in CHALLENGES |->
                     [exists |-> TRUE, best_score |-> None, best_agent_id |-> NoText]]
  /\ now = 0
  /\ handlers = [h \in Handlers |-> IdleHandler]
  /\ workers = << >>

NextRace ==
  \/ \E req \in SpecRequests : Len(submissions) < MaxSubs /\ Submit(req)
  \/ \E i \in Ids : \/ WorkerStart(i)
                    \/ WorkerEvaluate(i)
                    \/ WorkerRankSelect(i)
                    \/ WorkerRankCommit(i)

\* the workers alone, with no exception raised and the Challenge rows present
SpecRace == InitListed /\ [][NextRace]_vars

\* a program that never returns
Looping ==
  [chars |-> 3, wide |-> 1, violations |-> 0, returns |-> "loops", run_ms |-> 5,
   source |-> PlainSource]

\* the requests of SpecLive: one agent, payloads of 3 and 5
\* bytes, a decompressor that reproduces the input, one that does not and
\* one that loops
LiveRequests ==
  [challenge_id : CHALLENGES, agent_id : {"a1"},
   compressed : { t \in CompressedTexts : ~t.malformed },
   decompressor : Decompressors \cup {Looping}]

NextLive ==
  \/ \E req \in LiveRequests : Len(submissions) < MaxSubs /\ Submit(req)
  \/ \E i \in Ids : WorkerStep(i)

\* the pool runs every queued task: a worker that can take a step takes one
WorkerScheduled(i) == i \in Ids /\ WorkerStep(i)

\* the server under a scheduler that is fair to every worker, with no crash
SpecLive ==
  /\ Init
  /\ [][NextLive]_vars
  /\ \A i \in 1 .. MaxSubs : WF_vars(WorkerScheduled(i))

\* the server process is not running: it has no handler
DownHandler == [pc |-> "down", req |-> NoRequest, compressed_size |-> 0]
ServerDown == \A h \in Handlers : handlers[h].pc = "down"

\* the server process dies (host restart, kill) between two requests: the
\* pool threads running process_submission and the tasks still queued die
\* with it, and what a session had not committed is lost
Crash ==
  /\ \A h \in Handlers : handlers[h].pc = "idle"
  /\ handlers' = [h \in Handlers |-> DownHandler]
  /\ workers' = [i \in Ids |->
       IF workers[i].pc = "done" THEN workers[i]
       ELSE [workers[i] EXCEPT !.pc = "crashed", !.writes = NoWrites]]
  /\ UNCHANGED <<submissions, agents, challenges, now>>

\* startup(): init_db() creates the tables that are missing; it reads and
\* writes no row, and queues no task
Startup ==
  /\ ServerDown
  /\ handlers' = [h \in Handlers |-> IdleHandler]
  /\ UNCHANGED <<submissions, agents, challenges, now, workers>>

\* time passes while the server is down
DownTick(t) == ServerDown /\ Tick(t)

\* the requests of SpecCrash: those of SpecLive with the payload of 3 bytes
CrashRequests == { r \in LiveRequests : r.compressed.groups = 1 }

NextCrash ==
  \/ \E req \in CrashRequests : Len(submissions) < MaxSubs /\ Submit(req)
  \/ \E i \in Ids : WorkerStep(i)
  \/ Crash
  \/ Startup
  \/ \E t \in Instants : DownTick(t)

\* the server with crashes and restarts; the clock of this specification
\* moves only during an outage, so a row found in processing at boot has
\* been in processing since its created_at
SpecCrash == Init /\ [][NextCrash]_vars

\* a base64 text that decodes to n bytes
TextOfLen(n) ==
  [groups |-> (n + 2) \div 3, pad |-> 3 * ((n + 2) \div 3) - n, malformed |-> FALSE]

\* a program whose text has the first `violations` of the statements
\* import os, import sys
Program(chars, wide, violations, returns) ==
  [chars |-> chars, wide |-> wide, violations |-> violations,
   returns |-> returns, run_ms |-> 5,
   source |-> Source(TRUE, SubSeq(<<Node("Import", <<"os">>),
                                     Node("Import", <<"sys">>)>>, 1, violations),
                     FALSE)]

\* what a decompress() may do: return a value, loop, be missing, raise
Behaviours ==
  ReturnKinds \cup {"loops", "no entry", "not callable", "ValueError",
                    "ZeroDivisionError", "MemoryError", "BaseException"}

\* programs of 4 bytes: one of each behaviour that the validator passes, and
\* two it rejects (import os)
BehaviourPrograms ==
  { Program(3, 1, 0, b) : b \in Behaviours }
    \cup { Program(3, 1, 1, "reference"), Program(3, 1, 2, "loops") }

\* programs of 4 bytes that wait (time.sleep, which uses no CPU time) and
\* then return the reference: for just under and exactly the timeout, and
\* for just under and exactly the end of the parent's join
SlowPrograms ==
  { [Program(3, 1, 0, "reference") EXCEPT !.run_ms = ms] :
      ms \in { SANDBOX_TIMEOUT_SECONDS * 1000 - 1,
               SANDBOX_TIMEOUT_SECONDS * 1000,
               (SANDBOX_TIMEOUT_SECONDS + JOIN_GRACE_SECONDS) * 1000 - 1,
               (SANDBOX_TIMEOUT_SECONDS + JOIN_GRACE_SECONDS) * 1000 } }

\* programs at the limits of the size checks: the empty text, and texts of
\* 100000 bytes (in 100000 and in 99999 characters) and of 100001 bytes (in
\* 100000 and in 100001 characters)
BoundaryPrograms ==
  { Program(0, 0, 0, "no entry") }
    \cup { Program(sz[1], sz[2], 0, b) :
             sz \in { <<CODE_SIZE_LIMIT, 0>>, <<CODE_SIZE_LIMIT - 1, 1>>,
                      <<CODE_SIZE_LIMIT, 1>>, <<CODE_SIZE_LIMIT + 1, 0>> },
             b \in {"reference", "ValueError"} }

\* the requests of SpecEval: every behaviour and every slow program with a
\* payload of one byte, and
\* the boundary programs with payloads of 0, 1, 2 * REFERENCE_SIZE and
\* 2 * REFERENCE_SIZE + 1 bytes
EvalRequests ==
  [challenge_id : CHALLENGES, agent_id : {"a1"},
   compressed : {TextOfLen(1)},
   decompressor : BehaviourPrograms \cup SlowPrograms]
    \cup
  [challenge_id : CHALLENGES, agent_id : {"a1"},
   compressed : { TextOfLen(n) : n \in {0, 1, 2 * REFERENCE_SIZE,
                                        2 * REFERENCE_SIZE + 1} },
   decompressor : BoundaryPrograms]

NextEval ==
  \/ \E req \in EvalRequests : Len(submissions) < MaxEvalSubs /\ Submit(req)
  \/ \E i \in Ids : WorkerStart(i) \/ WorkerEvaluate(i)

\* submissions of every kind of program and size, evaluated
SpecEval == Init /\ [][NextEval]_vars

\* the requests of SpecRank: the decompressor of 4 bytes that reproduces the
\* input, sent by a1 with a payload of 3 bytes and by a2 with payloads of 3
\* and of 5 bytes
RankRequests ==
  { r \in SpecRequests :
      /\ r.challenge_id \in CHALLENGES
      /\ ~r.compressed.malformed
      /\ r.decompressor.returns = "reference"
      /\ r.agent_id = "a1" => r.compressed.groups = 1 }

\* no update_leaderboard_ranks is between its queries and its commit
NoRecomputeInFlight == \A j \in Ids : workers[j].pc # "committing"

NextRank ==
  \/ /\ NoRecomputeInFlight
     /\ \/ \E req \in RankRequests : Len(submissions) < MaxRankSubs /\ Submit(req)
        \/ \E i \in Ids : WorkerStart(i) \/ WorkerEvaluate(i) \/ WorkerRankSelect(i)
        \/ Len(submissions) < MaxRankSubs /\ Tick(WINDOW_MINUTES - 1)
  \/ \E i \in Ids : WorkerRankCommit(i)

\* every update_leaderboard_ranks runs in isolation: nothing else happens
\* between its queries and its commit; the Challenge rows are present; the
\* clock, which only submit reads, is followed while a submit can come
SpecRank == InitListed /\ [][NextRank]_vars

\* statements, each as the nodes ast.walk yields for it: imports of modules
\* on the allow-list (zlib and itertools, which the worker preloads, and
\* array, which it does not), on the forbidden list (os, os.path) and on
\* neither (numpy), as import m and as from m import x, and from . import x;
\* forbidden builtins called (eval("1"), getattr(x, "a")), assigned (f =
\* eval) and passed (map(open, x)); permitted calls (len(x),
\* zlib.decompress(x)); a forbidden attribute (x.__class__), a forbidden
\* string constant ("__dict__") and the attribute os of the module gzip
Statements ==
  { <<Node("Import", <<m>>)>> : m \in {"zlib", "itertools", "array", "os", "numpy"} }
    \cup { <<Node("ImportFrom", <<m>>)>> : m \in {"zlib", "os", "numpy"} }
    \cup { <<Node("Import", <<"os", "path">>)>>,
           <<Node("ImportFrom", << >>)>>,
           <<Node("Call", <<"eval">>), Node("Name", <<"eval">>), Node("Constant", <<"1">>)>>,
           <<Node("Call", <<"getattr">>), Node("Name", <<"getattr">>), Node("Constant", <<"a">>)>>,
           <<Node("Name", <<"eval">>)>>,
           <<Node("Call", <<"map">>), Node("Name", <<"map">>), Node("Name", <<"open">>)>>,
           <<Node("Call", <<"len">>), Node("Name", <<"len">>)>>,
           <<Node("Call", << >>), Node("Attribute", <<"decompress">>), Node("Name", <<"zlib">>)>>,
           <<Node("Attribute", <<"__class__">>)>>,
           <<Node("Constant", <<"__dict__">>)>>,
           <<Node("Attribute", <<"os">>), Node("Name", <<"gzip">>)>> }

\* a program of `chars` characters with the given syntax whose decompress()
\* returns the reference
SourceProgram(chars, source) ==
  [chars |-> chars, wide |-> 1,
   violations |-> Len(WalkViolations(source.nodes)),
   returns |-> "reference", run_ms |-> 5, source |-> source]

\* programs of one statement, and of one statement followed by import zlib
\* or by f = eval; a text with import os that is one character over
\* max_code_length, one that does not parse, and one with import zlib that a
\* shell pattern matches
ValidatePrograms ==
  { SourceProgram(3, Source(TRUE, first \o second, FALSE)) :
      first \in Statements,
      second \in { << >>, <<Node("Import", <<"zlib">>)>>, <<Node("Name", <<"eval">>)>> } }
    \cup { SourceProgram(MAX_CODE_LENGTH + 1,
                         Source(TRUE, <<Node("Import", <<"os">>)>>, FALSE)),
           SourceProgram(3, Source(FALSE, << >>, FALSE)),
           SourceProgram(3, Source(TRUE, <<Node("Import", <<"zlib">>)>>, TRUE)) }

ValidateRequests ==
  [challenge_id : CHALLENGES, agent_id : {"a1"},
   compressed : {TextOfLen(1)}, decompressor : ValidatePrograms]

NextValidate ==
  \/ \E req \in ValidateRequests : Len(submissions) < MaxEvalSubs /\ Submit(req)
  \/ \E i \in Ids : WorkerStart(i) \/ WorkerEvaluate(i)

\* submissions of programs with every kind of import and of reference to a
\* builtin, evaluated
SpecValidate == Init /\ [][NextValidate]_vars

\* =================================================================== claims
AllDone ==
  /\ \A h \in Handlers : handlers[h].pc = "idle"
  /\ \A i \in Ids : workers[i].pc = "done"

\* 1 + the number of scored submissions of the same challenge with a
\* strictly lower score
CompetitionRank(i) ==
  1 + Cardinality({ j \in ScoredIds(submissions[i].challenge_id) :
                      submissions[j].score < submissions[i].score })

IsMinScored(i, c) ==
  /\ i \in ScoredIds(c)
  /\ \A j \in ScoredIds(c) : submissions[i].score <= submissions[j].score

\* C1: every row's status is one of pending, processing, scored, error, and
\* a status only ever changes pending -> processing, processing -> scored or
\* processing -> error.
C1_StatusTransitions ==
  [][\A i \in Ids :
       /\ submissions[i].status \in {"pending", "processing", "scored", "error"}
       /\ submissions'[i].status # submissions[i].status =>
            <<submissions[i].status, submissions'[i].status>> \in
              { <<"pending", "processing">>, <<"processing", "scored">>,
                <<"processing", "error">> }]_vars

\* C2: once a row's status is scored or error, its status, score,
\* error_message and execution_time_ms never change again.
C2_TerminalRowsImmutable ==
  [][\A i \in Ids :
       submissions[i].status \in {"scored", "error"} =>
         /\ submissions'[i].status = submissions[i].status
         /\ submissions'[i].score = submissions[i].score
         /\ submissions'[i].error_message = submissions[i].error_message
         /\ submissions'[i].execution_time_ms = submissions[i].execution_time_ms]_vars

\* C3: in every state every scored submission's rank is its standard
\* competition rank among the scored submissions of its challenge.
C3_RankIsCompetitionRank ==
  \A i \in Ids :
    submissions[i].status = "scored" => submissions[i].rank = CompetitionRank(i)

\* C4: in every state a challenge with a scored submission has its Challenge
\* row, and the row's best_score is the minimum score of its scored
\* submissions.
C4_BestScoreIsMinimum ==
  \A c \in CHALLENGES :
    ScoredIds(c) # {} =>
      /\ challenges[c].exists
      /\ \E i \in ScoredIds(c) :
           IsMinScored(i, c) /\ challenges[c].best_score = submissions[i].score

\* C5: every scored submission's score is compressed_size_bytes +
\* decompressor_size_bytes of its row, the sizes submit stored: the length of
\* the decoded payload and the UTF-8 length of the decompressor text.
C5_ScoreIsSumOfStoredSizes ==
  \A i \in Ids :
    /\ submissions[i].compressed_size_bytes = workers[i].compressed_size
    /\ submissions[i].decompressor_size_bytes
         = workers[i].code.chars + workers[i].code.wide
    /\ submissions[i].status = "scored" =>
         submissions[i].score = submissions[i].compressed_size_bytes
                                + submissions[i].decompressor_size_bytes

\* a scored and ranked submission of a 3-byte payload and a decompressor of
\* 3 characters, 4 bytes
C5_Witness ==
  \E i \in Ids :
    /\ submissions[i].status = "scored"
    /\ workers[i].pc = "done"
    /\ submissions[i].compressed_size_bytes = 3
    /\ submissions[i].decompressor_size_bytes = 4
    /\ submissions[i].score = 7

\* the rows of (agent_id, challenge_id) created in the 60 minutes up to t
RowsInWindow(agent_id, challenge_id, t) ==
  { i \in Ids : /\ submissions[i].agent_id = agent_id
                /\ submissions[i].challenge_id = challenge_id
                /\ submissions[i].created_at <= t
                /\ t - submissions[i].created_at < WINDOW_MINUTES }

\* C6: under concurrent submit handlers, no trailing 60-minute window holds
\* more than SUBMISSIONS_PER_HOUR rows of one (agent_id, challenge_id).
C6_WindowNeverExceedsLimit ==
  \A a \in AgentIds, c \in CHALLENGES, t \in Instants :
    Cardinality(RowsInWindow(a, c, t)) <= SUBMISSIONS_PER_HOUR

\* C7: with no other submit in flight, a submit to a known challenge is
\* answered 429 RATE_LIMITED with retry_after_seconds 3600 exactly when the
\* pair has SUBMISSIONS_PER_HOUR or more rows, of any status, created in the
\* trailing 60 minutes; so after N submits at t a further one is rejected at
\* t + 59 min and accepted at t + 61 min.
C7_RateLimitExact ==
  (\A h \in Handlers : handlers[h].pc = "idle") =>
    \A req \in Requests :
      req.challenge_id \in CHALLENGES =>
        LET n == Cardinality(RowsInWindow(req.agent_id, req.challenge_id, now))
            resp == SubmitResponse(req)
        IN  /\ resp.code = 429 <=> n >= SUBMISSIONS_PER_HOUR
            /\ resp.code = 429 =>
                 /\ resp.error_code = "RATE_LIMITED"
                 /\ resp.retry_after_seconds = 3600
            /\ (resp.code # 429 /\ ~req.compressed.malformed) =>
                 /\ resp.code = 200
                 /\ resp.status = "pending"

\* N submits of a1 at t = 0, of which one has reached status error and one
\* is still pending, were accepted; at t + 61 a further submit of a1 was
\* accepted, and a1 is now at the limit of one row in the window
C7_Witness ==
  /\ \A h \in Handlers : handlers[h].pc = "idle"
  /\ Len(submissions) = SUBMISSIONS_PER_HOUR + 1
  /\ \A i \in 1 .. SUBMISSIONS_PER_HOUR :
       submissions[i].agent_id = "a1" /\ submissions[i].created_at = 0
  /\ submissions[1].status = "error"
  /\ submissions[2].status = "pending"
  /\ submissions[SUBMISSIONS_PER_HOUR + 1].agent_id = "a1"
  /\ submissions[SUBMISSIONS_PER_HOUR + 1].created_at = WINDOW_MINUTES + 1
  /\ now = WINDOW_MINUTES + 1

\* C8: once all workers have finished, the stored ranks, best_score and
\* best_agent_id are those of one rank recomputation over the final set of
\* scored submissions.
C8_FinalRanksAsOneRecompute ==
  AllDone =>
    /\ \A i \in Ids :
         submissions[i].status = "scored" => submissions[i].rank = CompetitionRank(i)
    /\ \A c \in CHALLENGES :
         ScoredIds(c) # {} =>
           \E i \in ScoredIds(c) :
             /\ IsMinScored(i, c)
             /\ challenges[c].best_score = submissions[i].score
             /\ challenges[c].best_agent_id = submissions[i].agent_id

\* C9: for each challenge at most one rank recomputation is between its
\* select and its commit.
C9_OneRecomputeAtATime ==
  \A c \in CHALLENGES :
    Cardinality({ i \in Ids : /\ submissions[i].challenge_id = c
                              /\ workers[i].pc = "committing" }) <= 1

\* C10: no status() poll observes a submission with status scored whose
\* rank is null.
C10_NoScoredWithoutRank ==
  \A id \in Ids :
    StatusView(id).status = "scored" => StatusView(id).rank # None

Terminal(i) == i \in Ids /\ submissions[i].status \in {"scored", "error"}

\* C11: with every worker scheduled and no crash, every row submit has
\* persisted eventually has status scored or error; nothing the client does
\* after the row is persisted takes part in that.
C11_EveryRowReachesTerminal ==
  \A i \in 1 .. MaxSubs : [](i \in Ids => <>Terminal(i))

\* a row whose evaluation raised and a row whose program looped, both
\* terminal, with every worker finished
C11_Witness ==
  /\ AllDone
  /\ \E i, j \in Ids :
       /\ submissions[i].error_message = "Internal error"
       /\ workers[j].code.returns = "loops"
       /\ Terminal(i) /\ Terminal(j)

\* C12: at boot, every row that has been in processing for more than
\* SANDBOX_TIMEOUT_SECONDS + 30 seconds is set to error with
\* STUCK_EVALUATION.
C12_BootSweepsStuckRows ==
  [][(ServerDown /\ ~ServerDown') =>
       \A i \in Ids :
         (/\ submissions[i].status = "processing"
          /\ (now - submissions[i].created_at) * 60 > SANDBOX_TIMEOUT_SECONDS + 30) =>
           /\ submissions'[i].status = "error"
           /\ submissions'[i].error_message = "STUCK_EVALUATION"]_vars

\* C13: a submission has one worker, a worker that has left its evaluation
\* never comes back to it, and the worker of a row with status error never
\* evaluates: the evaluator runs at most once per row, crashes, restarts
\* and exceptions included.
C13_EvaluatedAtMostOnce ==
  [][/\ Len(workers') = Len(submissions')
     /\ \A i \in Ids :
          /\ workers[i].pc \notin {"queued", "evaluating"} =>
               workers'[i].pc \notin {"queued", "evaluating"}
          /\ submissions[i].status = "error" =>
               workers'[i].pc \notin {"queued", "evaluating"}]_vars

\* a row whose evaluation ended in error, not evaluated again after an
\* outage and a restart of the server
C13_Witness ==
  /\ \A h \in Handlers : handlers[h].pc = "idle"
  /\ \E i \in Ids :
       /\ submissions[i].status = "error"
       /\ workers[i].pc = "done"
       /\ now > submissions[i].created_at

\* the worker of row i has written the result of its evaluation
Evaluated(i) == workers[i].pc \in {"ranking", "done"}

\* the sizes of row i are within the limits of the four pre-checks
PassesPreChecks(i) ==
  /\ submissions[i].compressed_size_bytes > 0
  /\ submissions[i].decompressor_size_bytes > 0
  /\ submissions[i].decompressor_size_bytes <= 100000
  /\ submissions[i].compressed_size_bytes <= 2 * REFERENCE_SIZE

\* the results of evaluate that agree with what the worker stored in row i
Outcomes(i) ==
  { r \in { Evaluate(workers[i].compressed_size, workers[i].code, cpu_killed) :
              cpu_killed \in BOOLEAN } :
      /\ r.success = (submissions[i].status = "scored")
      /\ r.error = submissions[i].error_message
      /\ r.execution_time_ms = submissions[i].execution_time_ms }

\* C14: a validated program whose decompress() never returns ends in status
\* error with a timeout message, DECOMPRESSION_TimeoutError and
\* execution_time_ms = timeout * 1000, the child's CPU-time limit being the
\* timeout's number of seconds.
C14_BusyLoopEndsInTimeoutError ==
  \A i \in Ids :
    (/\ Evaluated(i) /\ PassesPreChecks(i)
     /\ workers[i].code.violations = 0
     /\ workers[i].code.returns = "loops") =>
      /\ submissions[i].status = "error"
      /\ submissions[i].error_message = "Decompression failed: Execution timeout"
      /\ submissions[i].execution_time_ms = SANDBOX_TIMEOUT_SECONDS * 1000
      /\ \A r \in Outcomes(i) : r.error_code = "DECOMPRESSION_TimeoutError"

\* C15: when decompress() returns a value within the timeout, execute
\* succeeds with exactly that value whatever its size, so the evaluation does
\* not end in a DECOMPRESSION_<error_type> failure.
C15_ReturnedValueArrives ==
  \A i \in Ids :
    (/\ Evaluated(i) /\ PassesPreChecks(i)
     /\ workers[i].code.violations = 0
     /\ workers[i].code.run_ms < SANDBOX_TIMEOUT_SECONDS * 1000
     /\ workers[i].code.returns \in ReturnKinds) =>
      /\ \A cpu_killed \in BOOLEAN :
           /\ Execute(workers[i].code, cpu_killed).success
           /\ Execute(workers[i].code, cpu_killed).result = ReturnValue(workers[i].code)
      /\ \A r \in Outcomes(i) :
           r.error_code \in {NoText, "WRONG_RETURN_TYPE", "DECOMPRESSION_MISMATCH"}

\* C16: for a program with validator findings execute returns success false,
\* error_type ValidationError and execution_time_ms 0 without starting a
\* child process, and the evaluated row has status error from an evaluation
\* whose error_code is DECOMPRESSION_ValidationError.
C16_ValidationFailureShortCircuits ==
  \A i \in Ids :
    (PassesPreChecks(i) /\ workers[i].code.violations > 0) =>
      /\ \A cpu_killed \in BOOLEAN :
           LET result == Execute(workers[i].code, cpu_killed)
           IN  /\ ~result.success
               /\ result.error_type = "ValidationError"
               /\ result.execution_time_ms = 0
               /\ ~result.spawned
      /\ Evaluated(i) =>
           /\ submissions[i].status = "error"
           /\ submissions[i].execution_time_ms = 0
           /\ Outcomes(i) # {}
           /\ \A r \in Outcomes(i) : r.error_code = "DECOMPRESSION_ValidationError"

\* a program that loops and has two validator findings, rejected
C16_Witness ==
  \E i \in Ids :
    /\ Evaluated(i) /\ PassesPreChecks(i)
    /\ workers[i].code.violations = 2
    /\ workers[i].code.returns = "loops"
    /\ submissions[i].status = "error"
    /\ submissions[i].error_message = "Decompression failed: Code validation failed"

\* the error types of the executor's contract
ERROR_TYPES ==
  {"ValidationError", "TimeoutError", "MemoryError", "RuntimeError", "SandboxError"}

\* C17: every failed ExecutionResult has its error_type among the five of
\* the contract, an exception of the program being RuntimeError, so every
\* error_code DECOMPRESSION_<error_type> is built from one of the five.
C17_ErrorTypeInContract ==
  \A i \in Ids :
    (Evaluated(i) /\ PassesPreChecks(i)) =>
      /\ \A cpu_killed \in BOOLEAN :
           LET result == Execute(workers[i].code, cpu_killed)
           IN  ~result.success => result.error_type \in ERROR_TYPES
      /\ \A r \in Outcomes(i) :
           r.error_code \in
             {NoText, "WRONG_RETURN_TYPE", "DECOMPRESSION_MISMATCH"}
               \cup { "DECOMPRESSION_" \o t : t \in ERROR_TYPES }

\* the executor succeeds on the program of row i with a bytes value of the
\* reference's length that differs from the reference at no index
ReproducesReference(i, cpu_killed) ==
  LET result == Execute(workers[i].code, cpu_killed)
  IN  /\ result.success
      /\ result.result.is_bytes
      /\ result.result.length = REFERENCE_SIZE
      /\ result.result.first_diff = None

\* C18: evaluate returns success true with a score exactly when the four
\* pre-checks pass, the executor succeeds and the value returned is bytes
\* equal to the reference byte for byte; in every other case success is
\* false, score is null and error_code is set.  The worker stores scored in
\* the first case and error in the others.
C18_SuccessIffExactReproduction ==
  \A i \in Ids :
    /\ \A cpu_killed \in BOOLEAN :
         LET r == Evaluate(workers[i].compressed_size, workers[i].code, cpu_killed)
             exact == PassesPreChecks(i) /\ ReproducesReference(i, cpu_killed)
         IN  /\ (r.success /\ r.score # None) <=> exact
             /\ ~exact => (~r.success /\ r.score = None /\ r.error_code # NoText)
    /\ Evaluated(i) =>
         ((submissions[i].status = "scored") <=>
            (PassesPreChecks(i) /\ \E cpu_killed \in BOOLEAN :
                                      ReproducesReference(i, cpu_killed)))

\* a value of the reference's length that differs from it in its last byte
\* only, found not to match
C18_Witness ==
  \E i \in Ids :
    /\ Evaluated(i) /\ PassesPreChecks(i)
    /\ workers[i].code.returns = "other"
    /\ ReturnValue(workers[i].code).length = REFERENCE_SIZE
    /\ submissions[i].status = "error"
    /\ submissions[i].error_message = "Decompressed output doesn't match original"

\* C19: the pre-checks apply in the order EMPTY_COMPRESSED,
\* EMPTY_DECOMPRESSOR, CODE_TOO_LARGE, COMPRESSED_TOO_LARGE and the first
\* that fails gives the error_code; when one fails the executor is not
\* invoked and execution_time_ms is 0.
C19_PreChecksInOrder ==
  \A i \in Ids :
    LET cs == submissions[i].compressed_size_bytes
        ds == submissions[i].decompressor_size_bytes
    IN  /\ \A cpu_killed \in BOOLEAN :
             LET r == Evaluate(workers[i].compressed_size, workers[i].code, cpu_killed)
             IN  /\ cs = 0 => r.error_code = "EMPTY_COMPRESSED"
                 /\ (cs > 0 /\ ds = 0) => r.error_code = "EMPTY_DECOMPRESSOR"
                 /\ (cs > 0 /\ ds > 100000) => r.error_code = "CODE_TOO_LARGE"
                 /\ (cs > 2 * REFERENCE_SIZE /\ ds > 0 /\ ds <= 100000) =>
                      r.error_code = "COMPRESSED_TOO_LARGE"
                 /\ ~PassesPreChecks(i) =>
                      (~r.success /\ ~r.executed /\ r.execution_time_ms = 0)
                 /\ PassesPreChecks(i) => r.executed
        /\ (Evaluated(i) /\ ~PassesPreChecks(i)) =>
             /\ submissions[i].status = "error"
             /\ submissions[i].execution_time_ms = 0

\* an empty payload with an empty decompressor, evaluated: EMPTY_COMPRESSED
C19_Witness ==
  \E i \in Ids :
    /\ Evaluated(i)
    /\ submissions[i].compressed_size_bytes = 0
    /\ submissions[i].decompressor_size_bytes = 0
    /\ submissions[i].status = "error"
    /\ submissions[i].error_message = "Compressed data is empty"

\* C20: the size limits are inclusive: 100000 bytes of decompressor and
\* 2 * reference_size bytes of payload pass the pre-checks, 100001 bytes
\* give CODE_TOO_LARGE and 2 * reference_size + 1 bytes give
\* COMPRESSED_TOO_LARGE.
C20_LimitsInclusive ==
  \A i \in Ids, cpu_killed \in BOOLEAN :
    LET cs == submissions[i].compressed_size_bytes
        ds == submissions[i].decompressor_size_bytes
        r == Evaluate(workers[i].compressed_size, workers[i].code, cpu_killed)
    IN  /\ (ds = 100000 /\ cs > 0 /\ cs <= 2 * REFERENCE_SIZE) => r.executed
        /\ (cs = 2 * REFERENCE_SIZE /\ ds > 0 /\ ds <= 100000) => r.executed
        /\ (ds = 100001 /\ cs > 0) =>
             (~r.executed /\ r.error_code = "CODE_TOO_LARGE")
        /\ (cs = 2 * REFERENCE_SIZE + 1 /\ ds > 0 /\ ds <= 100000) =>
             (~r.executed /\ r.error_code = "COMPRESSED_TOO_LARGE")

\* a decompressor of 100000 bytes in 99999 characters with a payload of
\* 2 * REFERENCE_SIZE bytes, scored
C20_Witness ==
  \E i \in Ids :
    /\ Evaluated(i)
    /\ submissions[i].decompressor_size_bytes = 100000
    /\ workers[i].code.chars = 99999
    /\ submissions[i].compressed_size_bytes = 2 * REFERENCE_SIZE
    /\ submissions[i].status = "scored"
    /\ submissions[i].score = 100000 + 2 * REFERENCE_SIZE

\* C21: every row with status scored has execution_time_ms strictly less
\* than SANDBOX_TIMEOUT_SECONDS * 1000, also when decompress() returned during
\* the extra period the parent waits beyond the timeout.
C21_ScoredWithinTimeout ==
  \A i \in Ids :
    submissions[i].status = "scored" =>
      submissions[i].execution_time_ms < SANDBOX_TIMEOUT_SECONDS * 1000

\* worker i's update_leaderboard_ranks commits in this step
RecomputeCommits(i) ==
  /\ workers[i].pc = "committing"
  /\ workers'[i].pc = "done"

\* C22: a rank recomputation run in isolation on a challenge leaves every
\* scored submission of the challenge with rank 1 + (the number of scored
\* submissions of the challenge with a strictly lower score).
C22_IsolatedRecomputeRanks ==
  [][\A i \in Ids :
       RecomputeCommits(i) =>
         \A j \in ScoredIds(submissions[i].challenge_id) :
           submissions'[j].rank = CompetitionRank(j)]_vars

\* two submissions tied at rank 1 and a third, of a higher score, at rank 3
C22_Witness ==
  /\ AllDone
  /\ \E i, j, k \in Ids :
       /\ i # j
       /\ submissions[i].score = submissions[j].score
       /\ submissions[k].score > submissions[i].score
       /\ submissions[i].rank = 1 /\ submissions[j].rank = 1
       /\ submissions[k].rank = 3

\* the scored submissions of challenge c with the minimum score that have
\* the earliest created_at among those
EarliestMinScored(c) ==
  { j \in ScoredIds(c) :
      /\ IsMinScored(j, c)
      /\ \A k \in ScoredIds(c) :
           IsMinScored(k, c) => submissions[j].created_at <= submissions[k].created_at }

\* C23: after a rank recomputation, when several scored submissions share
\* the minimum score, best_agent_id is the agent of the one with the earliest
\* created_at.
C23_BestAgentIsEarliest ==
  [][\A i \in Ids :
       RecomputeCommits(i) =>
         LET c == submissions[i].challenge_id
         IN  challenges'[c].best_agent_id \in
               { submissions[j].agent_id : j \in EarliestMinScored(c) }]_vars

\* C24: a rank recomputation that runs when every scored submission of the
\* challenge already has the rank of an earlier recomputation (no submission
\* became scored in between) leaves every rank and the challenge's best_score
\* and best_agent_id as they were.
C24_RecomputeIdempotent ==
  [][\A i \in Ids :
       (/\ RecomputeCommits(i)
        /\ \A j \in ScoredIds(submissions[i].challenge_id) :
             submissions[j].rank # None) =>
         /\ submissions' = submissions
         /\ challenges' = challenges]_vars

\* the values of the limit parameter asked for
Limits == 1 .. MaxSubs

\* C25: leaderboard(challenge, limit) returns at most one entry per agent,
\* whose score is the minimum score over the agent's scored submissions of
\* the challenge, also when the agent has several scored submissions with
\* that minimum; the entries are in ascending score order and at most limit.
C25_LeaderboardOnePerAgent ==
  \A c \in CHALLENGES, limit \in Limits :
    \A board \in Leaderboard(c, limit) :
      LET entries == board.entries
      IN  /\ Len(entries) <= limit
          /\ \A p, q \in DOMAIN entries :
               /\ p # q => entries[p].agent_id # entries[q].agent_id
               /\ p < q => entries[p].score <= entries[q].score
          /\ \A p \in DOMAIN entries :
               /\ \E i \in ScoredIds(c) :
                    /\ submissions[i].agent_id = entries[p].agent_id
                    /\ submissions[i].score = entries[p].score
               /\ \A i \in ScoredIds(c) :
                    submissions[i].agent_id = entries[p].agent_id =>
                      entries[p].score <= submissions[i].score

\* C26: for any interleaving of submits that name the same previously
\* unknown agent_id, none of them fails because of the agent creation.
C26_AgentUpsertNeverFails ==
  \A h \in Handlers : handlers[h].pc # "integrity_error"

\* C27: an accepted submit stores exactly one new row, under an id no other
\* row has, with status pending, score 0, rank null and the sizes computed
\* from the request; the same commit sets the agent's last_submission_at; the
\* response is pending with that id; the evaluation is queued with the commit
\* and has not run when submit returns, and no worker exists for a row that
\* is not stored.
C27_AcceptedSubmitPersistsPending ==
  [][/\ DOMAIN workers = Ids
     /\ Len(submissions') # Len(submissions) =>
          LET id == Len(submissions) + 1
              new == submissions'[id]
          IN  /\ DOMAIN submissions' = Ids \cup {id}
              /\ \A i \in Ids : submissions'[i] = submissions[i]
              /\ new.status = "pending" /\ new.score = 0 /\ new.rank = None
              /\ new.created_at = now
              /\ \E req \in SpecRequests :
                   /\ SubmitOutcome(req) = "ACCEPTED"
                   /\ SubmitResponse(req).code = 200
                   /\ SubmitResponse(req).status = "pending"
                   /\ SubmitResponse(req).submission_id = id
                   /\ new.agent_id = req.agent_id
                   /\ new.challenge_id = req.challenge_id
                   /\ new.compressed_size_bytes = B64DecodedLen(req.compressed)
                   /\ new.decompressor_size_bytes = Utf8Len(req.decompressor)
                   /\ workers'[id].code = req.decompressor
              /\ agents'[new.agent_id].exists
              /\ agents'[new.agent_id].last_submission_at = now
              /\ DOMAIN workers' = DOMAIN submissions'
              /\ workers'[id].pc = "queued"
              /\ \A i \in Ids : workers'[i] = workers[i]]_vars

\* a second submit accepted after the first row has been evaluated: the new
\* row is pending under its own id and its evaluation has not started
C27_Witness ==
  /\ Len(submissions) = 2
  /\ workers[1].pc = "done"
  /\ submissions[2].status = "pending" /\ submissions[2].rank = None
  /\ submissions[2].score = 0
  /\ workers[2].pc = "queued"
  /\ agents[submissions[2].agent_id].last_submission_at = submissions[2].created_at

\* C28: a submission that fails an evaluator pre-check (EMPTY_COMPRESSED,
\* EMPTY_DECOMPRESSOR, CODE_TOO_LARGE, COMPRESSED_TOO_LARGE) gets that error
\* in the response of submit itself: submit stores no row, and so hands out no
\* pending submission_id, for sizes that fail a pre-check.
C28_PreCheckErrorsSynchronous ==
  \A i \in Ids :
    PreCheck(submissions[i].compressed_size_bytes,
             submissions[i].decompressor_size_bytes).success

\* the error and error_code fields of the response of status(submission_id)
StatusError(submission_id) ==
  LET view == StatusView(submission_id)
  IN  [error |-> view.error,
       error_code |-> IF "error_code" \in DOMAIN view THEN view.error_code
                      ELSE NoText]

\* C29: for every submission whose evaluation fails, the evaluator's
\* error_code is stored with the row and returned by status(submission_id)
\* once the row is in status error.
C29_ErrorCodeReturnedByStatus ==
  \A i \in Ids :
    (Evaluated(i) /\ submissions[i].status = "error") =>
      /\ "error_code" \in DOMAIN submissions[i]
      /\ \A r \in Outcomes(i) : StatusError(i).error_code = r.error_code

\* C30: a submission whose status is pending, processing or error has rank
\* null and status() reports no score for it; rank is non-null only on rows
\* with status scored.
C30_RankOnlyOnScored ==
  \A i \in Ids :
    submissions[i].status # "scored" =>
      /\ submissions[i].rank = None
      /\ StatusView(i).score = None

\* the top-level modules the program's import statements name
ImportedModules(code) ==
  { TopLevel(code.source.nodes[k].name) :
      k \in { n \in DOMAIN code.source.nodes :
                /\ code.source.nodes[n].type \in {"Import", "ImportFrom"}
                /\ code.source.nodes[n].name # << >> } }

\* C31: every program that passes validation and imports only allow-listed
\* modules has each of its import statements succeed in the worker: its
\* execution does not end in an ImportError.
C31_AllowedImportsSucceed ==
  \A i \in Ids :
    (/\ Evaluated(i) /\ PassesPreChecks(i)
     /\ Valid(workers[i].code)
     /\ ImportedModules(workers[i].code) \subseteq ALLOWED_MODULES) =>
      /\ \A cpu_killed \in BOOLEAN :
           Execute(workers[i].code, cpu_killed).error_type # "ImportError"
      /\ submissions[i].error_message # "Decompression failed: __import__ not found"

\* the text is within max_code_length, parses, matches no shell pattern and
\* has no call of a forbidden builtin, forbidden attribute or forbidden
\* string constant
NothingElseForbidden(code) ==
  /\ code.chars <= MAX_CODE_LENGTH
  /\ code.source.parses
  /\ ~code.source.shell_like
  /\ \A k \in DOMAIN code.source.nodes :
       LET node == code.source.nodes[k]
       IN  /\ node.type = "Call" /\ node.name # << >> =>
                node.name[1] \notin FORBIDDEN_BUILTINS
           /\ node.type \in {"Attribute", "Constant"} /\ node.name # << >> =>
                node.name[1] \notin FORBIDDEN_ATTRIBUTES

\* validate(code) is valid=false with a violation naming each imported
\* module that is off the allow-list
RejectsImports(code) ==
  \A m \in ImportedModules(code) \ ALLOWED_MODULES :
    /\ ~Validate(code).valid
    /\ \E k \in DOMAIN Validate(code).violations :
         Validate(code).violations[k].name = m

\* validate(code) is valid=true with the imported modules in imports_used
\* when they are all allow-listed and nothing else is forbidden
AcceptsImports(code) ==
  (ImportedModules(code) \subseteq ALLOWED_MODULES /\ NothingElseForbidden(code)) =>
    /\ Validate(code).valid
    /\ ImportedModules(code) \subseteq Validate(code).imports_used

\* C32 as stated: validate returns valid=false, with a violation naming m,
\* for every program containing an import of a top-level module m that is
\* not on the allow-list, and valid=true with the imports in imports_used
\* when every import is allow-listed and nothing else is forbidden.
C32_ImportsOffAllowListRejected ==
  \A i \in Ids :
    RejectsImports(workers[i].code) /\ AcceptsImports(workers[i].code)

\* C32, amended: the same for every program of at most max_code_length
\* characters that parses; a longer text, or one that does not parse, is
\* valid=false with the one violation of that check, which names no module.
C32_ParsedImportsOffAllowListRejected ==
  \A i \in Ids :
    /\ (workers[i].code.chars <= MAX_CODE_LENGTH /\ workers[i].code.source.parses) =>
         RejectsImports(workers[i].code)
    /\ ~(workers[i].code.chars <= MAX_CODE_LENGTH /\ workers[i].code.source.parses) =>
         /\ ~Validate(workers[i].code).valid
         /\ Len(Validate(workers[i].code).violations) = 1
    /\ AcceptsImports(workers[i].code)

\* import numpy, on neither list, rejected with a violation naming numpy,
\* and the row evaluated to an error
C32_Witness ==
  \E i \in Ids :
    /\ Evaluated(i)
    /\ submissions[i].status = "error"
    /\ "numpy" \in ImportedModules(workers[i].code)
    /\ ~Validate(workers[i].code).valid
    /\ \E k \in DOMAIN Validate(workers[i].code).violations :
         /\ Validate(workers[i].code).violations[k].name = "numpy"
         /\ Validate(workers[i].code).violations[k].suffix = " (not in whitelist)"

\* C33: validate returns valid=false for every program that references a
\* forbidden builtin name in any position: called, assigned to another name
\* or passed as an argument.
C33_ForbiddenBuiltinAnyPosition ==
  \A i \in Ids :
    (/\ Evaluated(i)
     /\ \E k \in DOMAIN workers[i].code.source.nodes :
          /\ workers[i].code.source.nodes[k].type \in {"Call", "Name"}
          /\ workers[i].code.source.nodes[k].name # << >>
          /\ workers[i].code.source.nodes[k].name[1] \in FORBIDDEN_BUILTINS) =>
      ~Validate(workers[i].code).valid

\* C34: execute always returns, the parent waiting at most timeout + 2 s for
\* the worker before it terminates it: a validated program that is still
\* running timeout + 2 s after its start is terminated, and execute returns
\* the TimeoutError result with execution_time_ms = timeout * 1000 and no
\* value, which the row records as an error with that time.
C34_TerminatedAfterTimeoutPlusTwo ==
  \A i \in Ids :
    (/\ Evaluated(i) /\ PassesPreChecks(i)
     /\ Valid(workers[i].code)
     /\ FirstRaise(workers[i].code.source.nodes) = NoRaise
     /\ workers[i].code.run_ms > (SANDBOX_TIMEOUT_SECONDS + 2) * 1000) =>
      /\ \A cpu_killed \in BOOLEAN :
           Execute(workers[i].code, cpu_killed) = TimeoutResult
      /\ submissions[i].status = "error"
      /\ submissions[i].execution_time_ms = SANDBOX_TIMEOUT_SECONDS * 1000

\* the indexes, within their common length, at which two byte strings differ
DifferAt(expected, actual) ==
  { k \in 0 .. Min(Len(expected), Len(actual)) - 1 : expected[k + 1] # actual[k + 1] }

\* C35: on DECOMPRESSION_MISMATCH, breakdown.first_diff_at is the smallest
\* index at which the returned bytes and the reference input differ, or the
\* smaller of the two lengths when one is a proper prefix of the other; it is
\* never null, and expected_size and actual_size are the two lengths.
C35_FirstDiffAtIsSmallestIndex ==
  \A i \in Ids :
    (Evaluated(i) /\ PassesPreChecks(i)) =>
      \A r \in Outcomes(i) :
        r.error_code = "DECOMPRESSION_MISMATCH" =>
          LET expected == Bytes(ORIGINAL_DATA)
              actual == Bytes(ReturnValue(workers[i].code))
              breakdown == MismatchBreakdown(Execute(workers[i].code, FALSE).result)
          IN  /\ breakdown.first_diff_at # None
              /\ breakdown.first_diff_at =
                   IF DifferAt(expected, actual) # {}
                     THEN CHOOSE k \in DifferAt(expected, actual) :
                            \A j \in DifferAt(expected, actual) : k <= j
                     ELSE Min(Len(expected), Len(actual))
              /\ breakdown.expected_size = Len(expected)
              /\ breakdown.actual_size = Len(actual)

\* a row evaluated to a mismatch whose returned bytes differ from the
\* reference in more than one place and are fewer than the reference's
C35_Witness ==
  \E i \in Ids :
    /\ Evaluated(i) /\ PassesPreChecks(i)
    /\ submissions[i].status = "error"
    /\ \E r \in Outcomes(i) : r.error_code = "DECOMPRESSION_MISMATCH"
    /\ MismatchBreakdown(Execute(workers[i].code, FALSE).result).first_diff_at = 2
    /\ MismatchBreakdown(Execute(workers[i].code, FALSE).result).actual_size
         = REFERENCE_SIZE - 1
    /\ Cardinality(DifferAt(Bytes(ORIGINAL_DATA),
                            Bytes(ReturnValue(workers[i].code)))) > 1

\* whether the host on which the first_failure-th setrlimit call fails can
\* have produced the stored result of row i: the child of a program that
\* loops is killed at its CPU-time limit only where that limit was set
HostProduces(i, first_failure) ==
  \E cpu_killed \in
       IF "RLIMIT_CPU" \in SetResourceLimits(first_failure)
         THEN CpuKilledChoices(workers[i].code) ELSE {FALSE} :
    Evaluate(workers[i].compressed_size, workers[i].code, cpu_killed) \in Outcomes(i)

\* C36: each call of execute that passes validation spawns a worker, and in
\* the worker user code runs only after the memory, CPU-time, process-count,
\* file-size and core-dump limits have been applied: a row whose program was
\* run has its result only from workers in which all five limits were set.
C36_LimitsAppliedBeforeUserCode ==
  \A i \in Ids :
    (/\ Evaluated(i) /\ PassesPreChecks(i)
     /\ Valid(workers[i].code)) =>
      \A first_failure \in SetrlimitFailures :
        HostProduces(i, first_failure) =>
          SetResourceLimits(first_failure) = { RLIMITS[k] : k \in DOMAIN RLIMITS }

\* the behaviours in which the program raises or has no usable entry
Raising == Behaviours \ (ReturnKinds \cup {"loops"})

\* C37: when user code raises, or the entry name is not defined or not
\* callable once the program is loaded, execute returns success false with no
\* result, the exception's message as error ("not found" for a missing entry)
\* and the exception's class name as error_type, and the row ends in error
\* with that message.
C37_RaisedExceptionReported ==
  \A i \in Ids :
    (/\ Evaluated(i) /\ PassesPreChecks(i)
     /\ Valid(workers[i].code)
     /\ workers[i].code.returns \in Raising) =>
      LET returns == workers[i].code.returns
          error == CASE returns = "no entry" ->
                          "Entry function 'decompress' not found in code"
                     [] returns = "not callable" -> "'decompress' is not callable"
                     [] OTHER -> "raised"
          error_type == IF returns \in {"no entry", "not callable"}
                          THEN "ValueError" ELSE returns
      IN  /\ \A cpu_killed \in BOOLEAN :
               /\ ~Execute(workers[i].code, cpu_killed).success
               /\ Execute(workers[i].code, cpu_killed).result = NoValue
               /\ Execute(workers[i].code, cpu_killed).error = error
               /\ Execute(workers[i].code, cpu_killed).error_type = error_type
          /\ submissions[i].status = "error"
          /\ submissions[i].error_message = "Decompression failed: " \o error

\* C38: a submit that is rejected (unknown challenge, rate limit, malformed
\* base64) inserts no row, schedules no evaluation, leaves every
\* last_submission_at, every rank and the count of the rate limit unchanged,
\* and for an unknown challenge creates no Agent row either.
C38_RejectedSubmitLeavesNoTrace ==
  \A req \in RateRequests :
    SubmitOutcome(req) # "ACCEPTED" =>
      /\ SubmitOutcome(req) = "NOT_FOUND" => SubmitAgents(req) = agents
      /\ \A a \in AgentIds :
           SubmitAgents(req)[a].last_submission_at = agents[a].last_submission_at
      /\ ~ENABLED (/\ Submit(req)
                   /\ \/ submissions' # submissions
                      \/ workers' # workers
                      \/ challenges' # challenges
                      \/ \E a \in AgentIds :
                           agents'[a].last_submission_at # agents[a].last_submission_at
                      \/ \E a \in AgentIds, c \in CHALLENGES :
                           RecentSubmissions(a, c)' # RecentSubmissions(a, c))

\* a2 has an Agent row from a submit rejected for its base64 (no row of a2,
\* no submit in flight, last_submission_at null) while a1 is at the rate
\* limit, where its next submit is rejected
C38_Witness ==
  /\ agents["a2"].exists /\ agents["a2"].last_submission_at = None
  /\ \A i \in Ids : submissions[i].agent_id = "a1"
  /\ \E req \in RateRequests :
       req.agent_id = "a1" /\ SubmitOutcome(req) = "RATE_LIMITED"

\* C39: an evaluation that ends in error changes only its own row: it
\* triggers no rank recomputation, and leaves its rank, every other row and
\* the challenge's best_score and best_agent_id as they were.
C39_ErrorEvaluationChangesOwnRowOnly ==
  \A i \in Ids :
    workers[i].pc = "evaluating" =>
      ~ENABLED (/\ WorkerEvaluate(i) \/ WorkerEvaluateRaises(i)
                /\ submissions'[i].status = "error"
                /\ \/ workers'[i].pc # "done"
                   \/ workers'[i].writes # NoWrites
                   \/ submissions'[i].rank # submissions[i].rank
                   \/ \E j \in Ids \ {i} : submissions'[j] # submissions[j]
                   \/ challenges' # challenges)

\* a row evaluated to a mismatch, its worker finished, beside a scored row
\* that a recomputation has ranked first and recorded as the best
C39_Witness ==
  \E i, j \in Ids :
    /\ submissions[i].status = "error"
    /\ submissions[i].error_message = "Decompressed output doesn't match original"
    /\ workers[i].pc = "done" /\ submissions[i].rank = None
    /\ submissions[j].status = "scored" /\ submissions[j].rank = 1
    /\ submissions[j].challenge_id = submissions[i].challenge_id
    /\ challenges[submissions[j].challenge_id].best_score = submissions[j].score

\* C40: once set, a challenge's best_score never increases: no step of a
\* submit, an evaluation or a rank recomputation, in any interleaving,
\* replaces it by a greater value.
C40_BestScoreNeverIncreases ==
  [][ \A c \in CHALLENGES :
        challenges[c].best_score # None =>
          challenges'[c].best_score <= challenges[c].best_score ]_vars

====
